---- MODULE Spec2Model ----
(***************************************************************************)
(* Model of the SoroTask contract (contract/src/lib.rs): a keyed store of  *)
(* TaskConfig records with register / get_task / monitor / execute.        *)
(* Every entry point runs to completion inside one host transaction, so    *)
(* each one is a single action.  The two external contracts reached by     *)
(* execute (the resolver and the target) are the environment: what they    *)
(* answer is chosen nondeterministically for every attempt.                *)
(***************************************************************************)
EXTENDS Integers, Sequences, FiniteSets, TLC

\* ---------------------------------------------------------------- bounds
\* Largest ledger timestamp the clock reaches in the model.
MaxTime == 2

\* ------------------------------------------------------- Option<T> values
\* Option<T> is modelled as a sequence of length at most one.
None == <<>>
Some(x) == <<x>>

\* ------------------------------------------------------------ Val values
\* A host Val is a tagged value.  Vec<Val>::into_val wraps a whole vector
\* into one Val of tag "Vec"; it is not the identity.
U32Val(n) == [tag |-> "U32", v |-> n]
VecIntoVal(vec) == [tag |-> "Vec", v |-> vec]

\* ------------------------------------------------------- input universes
TaskIds == {7, 8}
Timestamps == 0..MaxTime

\* The record every sampled TaskConfig is a variation of.
BaseConfig ==
    [creator |-> "alice", target |-> "T", function |-> "f",
     args |-> <<U32Val(3)>>, resolver |-> None, interval |-> 10,
     last_run |-> 0, gas_balance |-> 100]

\* A second task that differs from BaseConfig in every plain data field.
OtherConfig ==
    [creator |-> "bob", target |-> "U", function |-> "g",
     args |-> <<U32Val(3), U32Val(4)>>, resolver |-> None, interval |-> 0,
     last_run |-> 0, gas_balance |-> -5]

FieldVariants == {BaseConfig, OtherConfig}

\* The TaskConfig values a caller passes to register: both tasks as fresh
\* ones, and the base task with and without a resolver and with any
\* last_run the caller likes.
Configs ==
    FieldVariants \cup
    { [BaseConfig EXCEPT !.resolver = r, !.last_run = t] :
        r \in {None, Some("R")}, t \in Timestamps }

\* Every record the store can come to hold: an input, with any last_run.
StoredConfigs == { [c EXCEPT !.last_run = t] : c \in Configs, t \in Timestamps }

\* What try_invoke_contract::<bool, Error> can hand back for the resolver
\* call: Ok(Ok(true)), Ok(Ok(false)), Ok(Err(_)) for a value that is not a
\* bool, Err(Ok(_)) for an error raised by the resolver, Err(Err(_)) for a
\* call that could not be made (no such contract or function, trap).
TryResults == {"OkOkTrue", "OkOkFalse", "OkErrConversion", "ErrContract", "ErrInvoke"}

\* What the strict invoke_contract on the target can do: return a value,
\* or panic because the target failed or does not exist.
InvokeResults == {"returned", "target_panicked", "target_missing"}

\* Marks an external call that the attempt did not make.
NotCalled == "not_called"

VARIABLES
    store,      \* persistent storage: task id -> Option<TaskConfig>
    now,        \* env.ledger().timestamp()
    last,       \* what the most recent entry-point call did and returned
    successAt,  \* task id -> Option<timestamp> of its latest successful execute
    registered, \* task id -> Option<TaskConfig>: what the latest register of
                \* the id passed, while no execute of the id has run since
    everRegistered, \* task id -> whether register was ever called on it
    skipBase    \* Option<store>: the store as it was before the first of the
                \* closed-gate attempts that the latest calls consist of

vars == <<store, now, last, successAt, registered, everRegistered, skipBase>>

\* ------------------------------------------------------------- storage
StorageGet(s, task_id) == s[task_id]

\* A write whose key does not depend on the task id.
StorageSetAnyKey(s, task_id, config) == [i \in DOMAIN s |-> Some(config)]

StorageSet(s, task_id, config) == [s EXCEPT ![task_id] = Some(config)]

\* ------------------------------------------------ register / get_task
\* A register that merges: it keeps the last_run of the record it replaces.
registerKeepsLastRun(s, task_id, config) ==
    IF s[task_id] = None THEN StorageSet(s, task_id, config)
    ELSE StorageSet(s, task_id, [config EXCEPT !.last_run = s[task_id][1].last_run])

register(s, task_id, config) == StorageSet(s, task_id, config)

get_task(s, task_id) == StorageGet(s, task_id)

\* A monitor that prunes the tasks it looks at.
monitorClears(s) == [i \in DOMAIN s |-> None]

\* monitor has an empty body.
monitor(s) == s

\* ------------------------------------------------------------- execute
\* Events of one attempt, in the order the code performs them.
LoadEvent(task_id) == <<"load", task_id>>
ResolverEvent(addr, fn, call_args) == <<"resolver", addr, fn, call_args>>
InvokeEvent(addr, fn, call_args) == <<"invoke", addr, fn, call_args>>
WriteEvent(task_id) == <<"write", task_id>>

\* The task's args handed to the resolver as positional arguments.
ResolverCallArgsUnpacked(config) == config.args

\* resolver_call_args: a fresh vector holding config.args as its one element.
ResolverCallArgs(config) == <<VecIntoVal(config.args)>>

\* A match that takes any completed call for a true answer.
ResolverAllowsAnyOk(try_result) == try_result \in {"OkOkTrue", "OkErrConversion"}

\* A fail-open match: only an explicit false closes the gate.
ResolverAllowsUnlessFalse(try_result) == try_result # "OkOkFalse"

\* The match on the try_invoke_contract result: Ok(Ok(true)) => true, _ => false.
ResolverAllows(try_result) == try_result = "OkOkTrue"

\* A gate that consults the (absent) resolver answer even for None.
ShouldExecuteOnlyOnTrue(config, try_result) == ResolverAllows(try_result)

\* should_execute: None => true, Some(resolver) => the match above.
ShouldExecute(config, try_result) ==
    IF config.resolver = None THEN TRUE ELSE ResolverAllows(try_result)

\* The target called with the try_ variant and its error dropped.
InvokeReturnsAlways(invoke_result) == TRUE

\* invoke_contract hands control back only when the target call succeeded;
\* any failure is a panic of the whole attempt.
InvokeReturns(invoke_result) == invoke_result = "returned"

\* The resolver's one-element argument vector reused for the target.
TargetCallArgsPacked(config) == <<VecIntoVal(config.args)>>

\* The arguments of the strict call: config.args.clone(), passed directly.
TargetCallArgs(config) == config.args

\* A commit that also resets the accounting field.
UpdatedConfigResetsGas(config, timestamp) ==
    [config EXCEPT !.last_run = timestamp, !.gas_balance = 0]

\* config.last_run = env.ledger().timestamp(); every other field is kept.
UpdatedConfig(config, timestamp) == [config EXCEPT !.last_run = timestamp]

\* Transaction atomicity of the host: a panicking call leaves storage as it
\* was when the call started.
HostOutcome(before, attempt) ==
    IF attempt.status = "panic" THEN [attempt EXCEPT !.store = before] ELSE attempt

\* A missing record replaced by a default one that is then stored.
TaskNotFoundCreates(s, task_id) ==
    [store |-> StorageSet(s, task_id, BaseConfig), status |-> "ok",
     trace |-> <<LoadEvent(task_id), WriteEvent(task_id)>>]

\* A missing record treated as a skipped run.
TaskNotFoundSkips(s, task_id) ==
    [store |-> s, status |-> "ok", trace |-> <<LoadEvent(task_id)>>]

\* .expect("Task not found") on an absent record: the attempt panics right
\* after the load.
TaskNotFound(s, task_id) ==
    [store |-> s, status |-> "panic", trace |-> <<LoadEvent(task_id)>>]

\* The state update placed after the `if` block instead of inside it.
SkipRunWritesLastRun(s, task_id, config, timestamp, trace) ==
    [store |-> StorageSet(s, task_id, UpdatedConfig(config, timestamp)),
     status |-> "ok", trace |-> Append(trace, WriteEvent(task_id))]

\* A skipped run that clears the run marker.
SkipRunResetsLastRun(s, task_id, config, timestamp, trace) ==
    [store |-> StorageSet(s, task_id, UpdatedConfig(config, 0)),
     status |-> "ok", trace |-> Append(trace, WriteEvent(task_id))]

\* A skipped run that removes the task whose gate was closed.
SkipRunDropsTask(s, task_id, config, timestamp, trace) ==
    [store |-> [s EXCEPT ![task_id] = None],
     status |-> "ok", trace |-> Append(trace, WriteEvent(task_id))]

\* The path around the `if should_execute` block: nothing is called and
\* nothing is written.
SkipRun(s, task_id, config, timestamp, trace) ==
    [store |-> s, status |-> "ok", trace |-> trace]

\* last_run written before the cross-contract call is made.
RunTaskWritesFirst(s, task_id, config, timestamp, trace, invoke_result) ==
    LET written == StorageSet(s, task_id, UpdatedConfig(config, timestamp))
        afterWrite == Append(trace, WriteEvent(task_id))
        afterInvoke ==
            Append(afterWrite,
                   InvokeEvent(config.target, config.function, TargetCallArgs(config)))
    IN
    IF ~InvokeReturns(invoke_result)
    THEN [store |-> written, status |-> "panic", trace |-> afterInvoke]
    ELSE [store |-> written, status |-> "ok", trace |-> afterInvoke]

\* A block that runs the task only when interval has elapsed since last_run.
RunTaskHonoursInterval(s, task_id, config, timestamp, trace, invoke_result) ==
    LET afterInvoke ==
            Append(trace,
                   InvokeEvent(config.target, config.function, TargetCallArgs(config)))
    IN
    IF timestamp - config.last_run < config.interval
    THEN [store |-> s, status |-> "ok", trace |-> trace]
    ELSE IF ~InvokeReturns(invoke_result)
    THEN [store |-> s, status |-> "panic", trace |-> afterInvoke]
    ELSE [store |-> StorageSet(s, task_id, UpdatedConfig(config, timestamp)),
          status |-> "ok",
          trace |-> Append(afterInvoke, WriteEvent(task_id))]

\* The `if should_execute` block: the strict call on the target, then, only
\* when it has returned, the last_run update and the write.
RunTask(s, task_id, config, timestamp, trace, invoke_result) ==
    LET afterInvoke ==
            Append(trace,
                   InvokeEvent(config.target, config.function, TargetCallArgs(config)))
    IN
    IF ~InvokeReturns(invoke_result)
    THEN [store |-> s, status |-> "panic", trace |-> afterInvoke]
    ELSE [store |-> StorageSet(s, task_id, UpdatedConfig(config, timestamp)),
          status |-> "ok",
          trace |-> Append(afterInvoke, WriteEvent(task_id))]

\* The body of execute.  try_result / invoke_result are the environment's
\* answers, used only if the corresponding call is made.
ExecuteBody(s, task_id, timestamp, try_result, invoke_result) ==
    LET loaded == StorageGet(s, task_id) IN
    IF loaded = None
    THEN TaskNotFound(s, task_id)
    ELSE
      LET config == loaded[1]
          gateTrace ==
              IF config.resolver = None THEN <<>>
              ELSE <<ResolverEvent(config.resolver[1], "check_condition",
                                   ResolverCallArgs(config))>>
          afterGate == <<LoadEvent(task_id)>> \o gateTrace
      IN
      IF ShouldExecute(config, try_result)
      THEN RunTask(s, task_id, config, timestamp, afterGate, invoke_result)
      ELSE SkipRun(s, task_id, config, timestamp, afterGate)

execute(s, task_id, timestamp, try_result, invoke_result) ==
    HostOutcome(s, ExecuteBody(s, task_id, timestamp, try_result, invoke_result))

\* ---------------------------------------------------- trace observations
HasEvent(trace, kind) == \E i \in 1..Len(trace) : trace[i][1] = kind

\* -------------------------------------------------------------- actions
NoCall == [op |-> "none", id |-> 0, status |-> "ok", ret |-> None, arg |-> None,
           try_result |-> NotCalled, invoke_result |-> NotCalled,
           trace |-> <<>>, after_skip |-> FALSE, repeat |-> FALSE]

Init ==
    /\ store = [i \in TaskIds |-> None]
    /\ now = 0
    /\ last = NoCall
    /\ successAt = [i \in TaskIds |-> None]
    /\ registered = [i \in TaskIds |-> None]
    /\ everRegistered = [i \in TaskIds |-> FALSE]
    /\ skipBase = None

Register(task_id, config) ==
    /\ store' = register(store, task_id, config)
    /\ last' = [NoCall EXCEPT !.op = "register", !.id = task_id,
                              !.arg = Some(config)]
    /\ registered' = [registered EXCEPT ![task_id] = Some(config)]
    /\ everRegistered' = [everRegistered EXCEPT ![task_id] = TRUE]
    /\ skipBase' = None
    /\ UNCHANGED <<now, successAt>>

GetTask(task_id) ==
    /\ last' = [NoCall EXCEPT !.op = "get_task", !.id = task_id,
                              !.ret = get_task(store, task_id)]
    /\ skipBase' = None
    /\ UNCHANGED <<store, now, successAt, registered, everRegistered>>

Monitor ==
    /\ store' = monitor(store)
    /\ last' = [NoCall EXCEPT !.op = "monitor"]
    /\ skipBase' = None
    /\ UNCHANGED <<now, successAt, registered, everRegistered>>

\* The answers the environment can give to an attempt: one per external
\* call the attempt makes, NotCalled for a call it does not make.
ResolverAnswers(s, task_id) ==
    IF HasEvent(ExecuteBody(s, task_id, 0, "OkOkTrue", "returned").trace, "resolver")
    THEN TryResults ELSE {NotCalled}

TargetAnswers(s, task_id, try_result) ==
    IF HasEvent(ExecuteBody(s, task_id, 0, try_result, "returned").trace, "invoke")
    THEN InvokeResults ELSE {NotCalled}

\* The resolver was consulted and did not answer true: the gate is closed.
GateClosed(try_result) == try_result \in TryResults \ {"OkOkTrue"}

\* The call recorded in l is an execute(task_id) whose gate was closed.
ClosedAttempt(l, task_id) ==
    l.op = "execute" /\ l.id = task_id /\ GateClosed(l.try_result)

\* The call recorded in l is an execute(task_id) that invoked the target
\* and returned normally.
CommittedAttempt(l, task_id) ==
    /\ l.op = "execute" /\ l.id = task_id
    /\ l.status = "ok" /\ l.invoke_result = "returned"

\* One execute(task_id) call.
Execute(task_id, try_result, invoke_result) ==
    LET out == execute(store, task_id, now, try_result, invoke_result)
        committed == out.status = "ok" /\ HasEvent(out.trace, "invoke")
        afterSkip == ClosedAttempt(last, task_id)
    IN
    /\ store' = out.store
    /\ last' = [NoCall EXCEPT
                  !.op = "execute", !.id = task_id, !.status = out.status,
                  !.try_result = try_result, !.invoke_result = invoke_result,
                  !.trace = out.trace, !.after_skip = afterSkip,
                  !.repeat = /\ CommittedAttempt(last, task_id)
                             /\ successAt[task_id] = Some(now)]
    /\ skipBase' = IF ~GateClosed(try_result) THEN None
                   ELSE IF afterSkip THEN skipBase ELSE Some(store)
    /\ successAt' = IF committed THEN [successAt EXCEPT ![task_id] = Some(now)]
                    ELSE successAt
    /\ registered' = [registered EXCEPT ![task_id] = None]
    /\ UNCHANGED <<now, everRegistered>>

\* The ledger closes and the timestamp moves on; it never goes back.
Tick ==
    /\ now < MaxTime
    /\ now' = now + 1
    /\ UNCHANGED <<store, last, successAt, registered, everRegistered, skipBase>>

Next ==
    \/ \E task_id \in TaskIds, config \in Configs : Register(task_id, config)
    \/ \E task_id \in TaskIds : GetTask(task_id)
    \/ Monitor
    \/ \E task_id \in TaskIds :
         \E try_result \in ResolverAnswers(store, task_id) :
           \E invoke_result \in TargetAnswers(store, task_id, try_result) :
             Execute(task_id, try_result, invoke_result)
    \/ Tick

Spec == Init /\ [][Next]_vars

TypeOK ==
    /\ store \in [TaskIds -> {None} \cup {Some(c) : c \in StoredConfigs}]
    /\ now \in Timestamps
    /\ successAt \in [TaskIds -> {None} \cup {Some(t) : t \in Timestamps}]
    /\ registered \in [TaskIds -> {None} \cup {Some(c) : c \in Configs}]
    /\ everRegistered \in [TaskIds -> BOOLEAN]
    /\ last.after_skip \in BOOLEAN
    /\ skipBase # None => ClosedAttempt(last, last.id)

\* ======================================================================
\* Properties
\* ======================================================================

\* The step just taken is a call execute(task_id).
ExecuteStep(task_id) ==
    /\ now' = now
    /\ last'.op = "execute"
    /\ last'.id = task_id

InvokeFailures == InvokeResults \ {"returned"}

\* The stored last_run of an id, an absent record counting as 0/unset.
LastRun(s, task_id) == IF s[task_id] = None THEN 0 ELSE s[task_id][1].last_run

\* C1: when the target invocation made by execute(task_id) fails, the call
\* aborts and the stored record of task_id is exactly what it was before.
C1_FailedInvokeLeavesRecord ==
    [][\A id \in TaskIds :
         (ExecuteStep(id) /\ last'.invoke_result \in InvokeFailures)
            => /\ last'.status = "panic"
               /\ store[id] # None
               /\ store'[id] = store[id]]_vars

C1_Witness ==
    /\ last.op = "execute"
    /\ last.invoke_result = "target_panicked"
    /\ last.status = "panic"
    /\ store[last.id] # None
    /\ store[last.id][1].last_run < now

\* C2: when execute(task_id) passes the gate and the target invocation
\* returns, the stored last_run becomes the timestamp of the attempt and
\* every other field of the record keeps its value.
C2_CommitSetsOnlyLastRun ==
    [][\A id \in TaskIds :
         (ExecuteStep(id) /\ last'.invoke_result = "returned")
            => /\ store[id] # None
               /\ store'[id] # None
               /\ store'[id][1].last_run = now
               /\ store'[id][1].creator = store[id][1].creator
               /\ store'[id][1].target = store[id][1].target
               /\ store'[id][1].function = store[id][1].function
               /\ store'[id][1].args = store[id][1].args
               /\ store'[id][1].resolver = store[id][1].resolver
               /\ store'[id][1].interval = store[id][1].interval
               /\ store'[id][1].gas_balance = store[id][1].gas_balance]_vars

C2_Witness ==
    /\ last.op = "execute"
    /\ last.invoke_result = "returned"
    /\ last.status = "ok"
    /\ now > 0
    /\ store[last.id] # None
    /\ store[last.id][1].last_run = now
    /\ store[last.id][1].gas_balance = 100

\* C3: with a resolver present, execute(task_id) invokes the target when the
\* resolver call returns true; when it returns false, raises, returns a
\* non-boolean or cannot be reached, the target is not invoked and last_run
\* stays as it was.
C3_ResolverGate ==
    [][\A id \in TaskIds :
         (ExecuteStep(id) /\ store[id] # None /\ store[id][1].resolver # None)
            => /\ last'.try_result \in TryResults
               /\ last'.try_result = "OkOkTrue"
                    => HasEvent(last'.trace, "invoke")
               /\ last'.try_result # "OkOkTrue"
                    => /\ ~HasEvent(last'.trace, "invoke")
                       /\ LastRun(store', id) = LastRun(store, id)]_vars

C3_Witness ==
    /\ last.op = "execute"
    /\ last.try_result = "ErrInvoke"
    /\ ~HasEvent(last.trace, "invoke")
    /\ store[last.id] # None
    /\ store[last.id][1].resolver # None
    /\ store[last.id][1].last_run < now

\* C4: with no resolver, execute(task_id) always invokes the target and
\* makes no resolver call.
C4_NoResolverAlwaysInvokes ==
    [][\A id \in TaskIds :
         (ExecuteStep(id) /\ store[id] # None /\ store[id][1].resolver = None)
            => /\ HasEvent(last'.trace, "invoke")
               /\ ~HasEvent(last'.trace, "resolver")
               /\ last'.try_result = NotCalled]_vars

C4_Witness ==
    /\ last.op = "execute"
    /\ store[last.id] # None
    /\ store[last.id][1].resolver = None
    /\ HasEvent(last.trace, "invoke")
    /\ ~HasEvent(last.trace, "resolver")

\* C5: execute(task_id) on an id without a record fails, calls neither the
\* resolver nor the target, and leaves the whole store unchanged.
C5_UnregisteredFails ==
    [][\A id \in TaskIds :
         (ExecuteStep(id) /\ store[id] = None)
            => /\ last'.status = "panic"
               /\ ~HasEvent(last'.trace, "resolver")
               /\ ~HasEvent(last'.trace, "invoke")
               /\ store' = store]_vars

C5_Witness ==
    /\ last.op = "execute"
    /\ last.status = "panic"
    /\ store[last.id] = None
    /\ \E other \in TaskIds : store[other] # None

\* C6: get_task(id) returns exactly the config passed by the latest
\* register(id) when no execute ran on the id since, and returns absent
\* for an id that was never registered.
C6_GetTaskReturnsLastRegistered ==
    last.op = "get_task"
        => /\ registered[last.id] # None => last.ret = registered[last.id]
           /\ ~everRegistered[last.id] => last.ret = None

\* get_task after a register that replaced a record differing in last_run.
C6_Witness ==
    /\ last.op = "get_task"
    /\ registered[last.id] # None
    /\ last.ret = Some(OtherConfig)
    /\ successAt[last.id] # None
    /\ successAt[last.id][1] > 0

\* C7: the stored last_run of an id never becomes smaller, whatever
\* operation is performed.
C7_LastRunNeverDecreases ==
    [][\A id \in TaskIds : LastRun(store', id) >= LastRun(store, id)]_vars

\* C8: the stored last_run of an id changes only in a step that is an
\* execute of that id whose target invocation returned, and such a step
\* sets it to the attempt's timestamp.
C8_LastRunUpdatedIffInvokeSucceeded ==
    [][\A id \in TaskIds :
         /\ LastRun(store', id) # LastRun(store, id)
              => (ExecuteStep(id) /\ last'.invoke_result = "returned")
         /\ (ExecuteStep(id) /\ last'.invoke_result = "returned")
              => LastRun(store', id) = now]_vars

\* C9: the stored last_run of an id is 0/unset while no execute of it has
\* succeeded, and otherwise the timestamp of its latest successful execute.
C9_LastRunIsLatestSuccess ==
    \A id \in TaskIds :
        LastRun(store, id) =
            IF successAt[id] = None THEN 0 ELSE successAt[id][1]

\* C10 as stated: execute fails on an absent task and never fails on a
\* registered one.
C10_RegisteredNeverFails ==
    last.op = "execute"
        => (last.status = "panic" <=> store[last.id] = None)

\* C10 amended: execute fails exactly when the task is absent or the
\* target invocation fails; on a registered task it returns normally when
\* the gate skips the run and when the target returns.
C10_FailsIffAbsentOrInvokeFailed ==
    last.op = "execute"
        => (last.status = "panic"
               <=> (store[last.id] = None \/ last.invoke_result \in InvokeFailures))

C10_Witness ==
    /\ last.op = "execute"
    /\ last.status = "ok"
    /\ store[last.id] # None
    /\ last.try_result = "OkOkFalse"
    /\ ~HasEvent(last.trace, "invoke")

\* The resolver answers that are failures of the call itself.
TryFailures == {"OkErrConversion", "ErrContract", "ErrInvoke"}

\* The events of one kind in a trace, as the set of their positions.
EventsOf(trace, kind) == {i \in 1..Len(trace) : trace[i][1] = kind}

\* C11: a failed resolver call (not found, error raised, non-boolean return,
\* trap) is recovered in the gate: execute returns normally, the target is
\* not invoked and nothing is written to the store.
C11_ResolverFailureIsSkip ==
    [][\A id \in TaskIds :
         (ExecuteStep(id) /\ last'.try_result \in TryFailures)
            => /\ last'.status = "ok"
               /\ ~HasEvent(last'.trace, "invoke")
               /\ ~HasEvent(last'.trace, "write")
               /\ store' = store]_vars

C11_Witness ==
    /\ last.op = "execute"
    /\ last.try_result = "ErrContract"
    /\ last.status = "ok"
    /\ ~HasEvent(last.trace, "invoke")
    /\ store[last.id] # None

\* C12: two execute(task_id) calls in immediate succession, the gate closed
\* both times, are both no-ops: the store after the second call is the
\* store before the first.
C12_SkippedTwiceIsNoOp ==
    (ClosedAttempt(last, last.id) /\ last.after_skip)
        => /\ skipBase # None
           /\ store = skipBase[1]
           /\ last.status = "ok"
           /\ ~HasEvent(last.trace, "write")

C12_Witness ==
    /\ ClosedAttempt(last, last.id)
    /\ last.after_skip
    /\ skipBase = Some(store)
    /\ store[last.id] # None
    /\ store[last.id][1].last_run < now

\* C13: a skipped attempt leaves nothing behind that blocks the task: in the
\* execute(task_id) that follows an attempt skipped by a false or failed
\* resolver call, the resolver is consulted again, and when it answers true
\* the target is invoked and, the target returning, last_run is committed.
C13_SkipDoesNotLock ==
    [][\A id \in TaskIds :
         (ClosedAttempt(last, id) /\ ExecuteStep(id))
            => /\ last'.try_result \in TryResults
               /\ last'.try_result = "OkOkTrue"
                    => /\ HasEvent(last'.trace, "invoke")
                       /\ last'.invoke_result = "returned"
                            => /\ last'.status = "ok"
                               /\ LastRun(store', id) = now]_vars

C13_Witness ==
    /\ CommittedAttempt(last, last.id)
    /\ last.after_skip
    /\ last.try_result = "OkOkTrue"
    /\ now > 0
    /\ LastRun(store, last.id) = now

\* C14: every resolver call made by execute is check_condition on the task's
\* resolver with an argument list of exactly one element, that element being
\* the task's whole args vector.
C14_ResolverGetsArgsAsOneValue ==
    last.op = "execute"
        => \A i \in EventsOf(last.trace, "resolver") :
             /\ store[last.id] # None
             /\ store[last.id][1].resolver # None
             /\ last.trace[i][2] = store[last.id][1].resolver[1]
             /\ last.trace[i][3] = "check_condition"
             /\ Len(last.trace[i][4]) = 1
             /\ last.trace[i][4][1].tag = "Vec"
             /\ last.trace[i][4][1].v = store[last.id][1].args

C14_Witness ==
    /\ last.op = "execute"
    /\ Len(last.trace) >= 2
    /\ last.trace[2] = <<"resolver", "R", "check_condition",
                         <<VecIntoVal(<<U32Val(3)>>)>> >>

\* C15: every target call made by execute is made on the stored target and
\* function with the stored args as the argument list, element for element,
\* whether or not a resolver was consulted first.
C15_TargetGetsStoredArgs ==
    last.op = "execute"
        => \A i \in EventsOf(last.trace, "invoke") :
             /\ store[last.id] # None
             /\ last.trace[i][2] = store[last.id][1].target
             /\ last.trace[i][3] = store[last.id][1].function
             /\ Len(last.trace[i][4]) = Len(store[last.id][1].args)
             /\ \A k \in 1..Len(last.trace[i][4]) :
                  /\ last.trace[i][4][k].tag = store[last.id][1].args[k].tag
                  /\ last.trace[i][4][k].v = store[last.id][1].args[k].v

C15_Witness ==
    /\ last.op = "execute"
    /\ last.try_result = "OkOkTrue"
    /\ Len(last.trace) >= 3
    /\ last.trace[3] = <<"invoke", "T", "f", <<U32Val(3)>> >>

\* C16: a registered task is never deleted: an id that was ever registered
\* holds exactly one record in every later state, and get_task on it
\* returns a present record.
C16_RegisteredStaysPresent ==
    /\ \A id \in TaskIds :
         everRegistered[id] => (store[id] # None /\ Len(store[id]) = 1)
    /\ (last.op = "get_task" /\ everRegistered[last.id]) => last.ret # None

C16_Witness ==
    /\ last.op = "get_task"
    /\ everRegistered[last.id]
    /\ last.ret # None
    /\ successAt[last.id] # None
    /\ \E other \in TaskIds : ~everRegistered[other]

\* C17: the store changes only in a register step and in an execute step
\* that commits: get_task, monitor, a skipped execute and an aborted execute
\* leave the whole store unchanged.
C17_OnlyRegisterAndCommitWrite ==
    [][/\ last'.op \in {"get_task", "monitor"} => store' = store
       /\ (last'.op = "execute" /\ ~CommittedAttempt(last', last'.id))
            => store' = store
       /\ store' # store
            => (last'.op = "register" \/ CommittedAttempt(last', last'.id))]_vars

C17_Witness ==
    /\ last.op = "execute"
    /\ last.status = "panic"
    /\ last.invoke_result = "target_missing"
    /\ store[last.id] # None
    /\ store[last.id][1].last_run < now

\* C18: the steps of one attempt occur in the order load, resolver call,
\* target call, write: the load is first, the target is called only after a
\* consulted resolver answered true, and the write comes last, only after
\* the target call has returned.
C18_StepsInOrder ==
    last.op = "execute"
        => /\ Len(last.trace) >= 1
           /\ last.trace[1][1] = "load"
           /\ \A i \in EventsOf(last.trace, "resolver") : i = 2
           /\ \A i \in EventsOf(last.trace, "invoke") :
                /\ i > 1
                /\ \A j \in EventsOf(last.trace, "resolver") : j < i
                /\ EventsOf(last.trace, "resolver") # {}
                     => last.try_result = "OkOkTrue"
           /\ \A i \in EventsOf(last.trace, "write") :
                /\ i = Len(last.trace)
                /\ \E j \in EventsOf(last.trace, "invoke") : j < i
                /\ last.invoke_result = "returned"

C18_Witness ==
    /\ last.op = "execute"
    /\ Len(last.trace) = 4
    /\ last.trace[1][1] = "load"
    /\ last.trace[2][1] = "resolver"
    /\ last.trace[3][1] = "invoke"
    /\ last.trace[4][1] = "write"

\* C19: execute(task_id) writes the store at most once and only at the key
\* of task_id: every other id holds after the call what it held before.
C19_ExecuteTouchesOnlyItsKey ==
    [][\A id \in TaskIds :
         ExecuteStep(id)
            => /\ \A j \in TaskIds \ {id} : store'[j] = store[j]
               /\ Cardinality(EventsOf(last'.trace, "write")) <= 1
               /\ \A i \in EventsOf(last'.trace, "write") :
                    last'.trace[i] = WriteEvent(id)]_vars

C19_Witness ==
    /\ CommittedAttempt(last, last.id)
    /\ \E j \in TaskIds \ {last.id} :
         /\ store[j] # None
         /\ store[j][1].last_run # LastRun(store, last.id)

\* C20: interval is not enforced: with the gate open, execute(task_id)
\* invokes the target and, the target returning, commits last_run even when
\* less than interval has passed since last_run.
C20_IntervalNotEnforced ==
    [][\A id \in TaskIds :
         (/\ ExecuteStep(id)
          /\ store[id] # None
          /\ (store[id][1].resolver = None \/ last'.try_result = "OkOkTrue")
          /\ now - store[id][1].last_run < store[id][1].interval)
            => /\ HasEvent(last'.trace, "invoke")
               /\ last'.invoke_result = "returned"
                    => /\ last'.status = "ok"
                       /\ LastRun(store', id) = now]_vars

\* A second successful execution right after a first one, at its timestamp.
C20_Witness ==
    /\ CommittedAttempt(last, last.id)
    /\ last.repeat
    /\ successAt[last.id] = Some(now)
    /\ store[last.id][1].interval > 0
    /\ LastRun(store, last.id) = now

====
